---- MODULE Spec2Model ----
(***************************************************************************)
(* A model of src/fabrication.py (class Fabrication): the rotation         *)
(* correction of footprints (fix_rotation, rotate), the Gerber plot plan   *)
(* and the gerber directory (generate_geber, generate_excellon), and the   *)
(* placement file (get_position, generate_cpl).                            *)
(*                                                                         *)
(* Strings that the code searches with regular expressions are sequences   *)
(* of one-character strings.  Lengths are in pcbnew internal units (nm).   *)
(***************************************************************************)
EXTENDS Integers, Sequences, FiniteSets, TLC

VARIABLES
    corrections,   \* self.corrections: sequence of [regex, correction]
    rotFp,         \* the footprint of the last fix_rotation call
    rotRes,        \* what that call produced: [raised, rotation, log]
    rotStart,      \* rotate: the rotation the chain of calls started from
    rotDeg,        \* rotate: the correction of the chain
    rotSides,      \* rotate: the layers of the footprints rotated so far
    rotCur,        \* rotate: the last value returned
    boardLayers,   \* self.board.GetCopperLayerCount()
    gerberdir,     \* the files in self.gerberdir
    plot_plan,     \* the plot plan of the last generate_geber
    npthLog,       \* the SetSkipPlotNPTH_Pads argument before each plot call
    dirAtOpen,     \* the files in gerberdir when the first plot file was opened
    layer_count,   \* the layer count of the last generate_geber (0: none yet)
    lastOp,        \* the last operation on gerberdir
    prevRun,       \* the generate_geber before the last: [ran, count, files]
    library,       \* the rows parent.library.get_all_correction_data() returns
    parts,         \* the rows parent.store.read_pos_parts() returns
    footprints,    \* the footprints of the board, in board order
    aux_orgin,     \* board.GetDesignSettings().GetAuxOrigin()
    settings,      \* parent.settings["gerber"]
    cplFile,       \* the placement file: [exists, header, rows]
    cplStatus      \* "idle", "done" or the exception generate_cpl left with

vars == <<corrections, rotFp, rotRes, rotStart, rotDeg, rotSides, rotCur,
          boardLayers, gerberdir, plot_plan, npthLog, dirAtOpen, layer_count,
          lastOp, prevRun, library, parts, footprints, aux_orgin, settings,
          cplFile, cplStatus>>

rotVars == <<rotFp, rotRes, rotStart, rotDeg, rotSides, rotCur>>
gerberVars == <<boardLayers, gerberdir, plot_plan, npthLog, dirAtOpen,
                layer_count, lastOp, prevRun>>
cplVars == <<library, parts, footprints, aux_orgin, settings, cplFile,
             cplStatus>>

(***************************************************************************)
(* pcbnew layer ids (KiCad 6 / 7 numbering, the versions the module's      *)
(* compatibility code names): copper layers are 0 .. 31, with F_Cu first   *)
(* and B_Cu last, and every technical layer is above B_Cu.                 *)
(***************************************************************************)
F_Cu == 0
B_Cu == 31
B_Paste == 34
F_Paste == 35
B_SilkS == 36
F_SilkS == 37
B_Mask == 38
F_Mask == 39
Cmts_User == 41
Edge_Cuts == 44

\* pcbnew internal units per millimetre (what ToMM divides by)
IU_PER_MM == 1000000

(***************************************************************************)
(* Bounds of the model.                                                    *)
(***************************************************************************)
MaxRules == 2        \* rules in a correction table
MaxChain == 2        \* consecutive rotate calls on one rotation
MaxLayers == 6       \* copper layers of a board
MaxParts == 2        \* rows of read_pos_parts
MaxFootprints == 2   \* footprints on the board

(***************************************************************************)
(* Python helpers.                                                         *)
(***************************************************************************)

\* a % n for n > 0: Python's result has the sign of n
PyMod(a, n) == a % n

Digit(c) ==
    CASE c = "0" -> 0 [] c = "1" -> 1 [] c = "2" -> 2 [] c = "3" -> 3
      [] c = "4" -> 4 [] c = "5" -> 5 [] c = "6" -> 6 [] c = "7" -> 7
      [] c = "8" -> 8 [] c = "9" -> 9

RECURSIVE ParseDigits(_, _, _)
ParseDigits(s, i, acc) ==
    IF i > Len(s) THEN acc ELSE ParseDigits(s, i + 1, 10 * acc + Digit(s[i]))

\* int(correction) of a decimal string with an optional sign
int(s) ==
    IF s[1] = "-" THEN 0 - ParseDigits(s, 2, 0)
    ELSE IF s[1] = "+" THEN ParseDigits(s, 2, 0)
    ELSE ParseDigits(s, 1, 0)

\* the pattern compiles: with no ")" in the alphabet of the patterns, a "("
\* is an unterminated subpattern (re.error)
re_valid(p) == \A i \in 1..Len(p) : p[i] # "("

\* the pattern from position i on matches s at position j
RECURSIVE MatchHere(_, _, _, _)
MatchHere(p, i, s, j) ==
    IF i > Len(p) THEN TRUE
    ELSE IF p[i] = "^" THEN j = 1 /\ MatchHere(p, i + 1, s, j)
    ELSE IF p[i] = "$" THEN j = Len(s) + 1 /\ MatchHere(p, i + 1, s, j)
    ELSE IF p[i] = "." THEN j <= Len(s) /\ MatchHere(p, i + 1, s, j + 1)
    ELSE j <= Len(s) /\ s[j] = p[i] /\ MatchHere(p, i + 1, s, j + 1)

\* re.search(regex, s): the exception, or whether the pattern matches anywhere
re_search(p, s) ==
    IF ~re_valid(p) THEN [raised |-> TRUE, found |-> FALSE]
    ELSE [raised |-> FALSE,
          found |-> \E j \in 1..(Len(s) + 1) : MatchHere(p, 1, s, j)]

(***************************************************************************)
(* Footprints: [ref, value, pkg, layer, orient, smd, pos, center,          *)
(* excluded].  orient is what GetOrientation() returns: an angle with      *)
(* AsDegrees() (api = "deg", v in degrees) or a number of tenths of a      *)
(* degree (api = "tenths").                                                *)
(***************************************************************************)
GetLayer(fp) == fp.layer

\* original.AsDegrees(), or original / 10 where there is no AsDegrees (the
\* rotations are whole degrees: the quotient is exact)
OrientationDegrees(fp) ==
    IF fp.orient.api = "deg" THEN fp.orient.v ELSE fp.orient.v \div 10

rotateNoWrap(fp, rotation, correction) ==
    IF GetLayer(fp) = 0
    THEN [rotation |-> rotation + int(correction),
          log |-> <<[side |-> "Top", degrees |-> correction]>>]
    ELSE [rotation |-> rotation - int(correction),
          log |-> <<[side |-> "Bottom", degrees |-> correction]>>]

rotateSameSign(fp, rotation, correction) ==
    [rotation |-> PyMod(rotation + int(correction), 360),
     log |-> <<[side |-> IF GetLayer(fp) = 0 THEN "Top" ELSE "Bottom",
                degrees |-> correction]>>]

\* Fabrication.rotate: the new rotation and the line it logs
rotate(fp, rotation, correction) ==
    IF GetLayer(fp) = 0
    THEN [rotation |-> PyMod(rotation + int(correction), 360),
          log |-> <<[side |-> "Top", degrees |-> correction]>>]
    ELSE [rotation |-> PyMod(rotation - int(correction), 360),
          log |-> <<[side |-> "Bottom", degrees |-> correction]>>]

Raised == [raised |-> TRUE, rotation |-> 0, log |-> <<>>]
Returned(r) == [raised |-> FALSE, rotation |-> r.rotation, log |-> r.log]

\* the second loop of fix_rotation, from rule i on: the package name
RECURSIVE ScanPackage(_, _, _, _)
ScanPackage(fp, rotation, rules, i) ==
    IF i > Len(rules) THEN [raised |-> FALSE, rotation |-> rotation, log |-> <<>>]
    ELSE LET m == re_search(rules[i].regex, fp.pkg)
         IN  IF m.raised THEN Raised
             ELSE IF m.found
                  THEN Returned(rotate(fp, rotation, rules[i].correction))
                  ELSE ScanPackage(fp, rotation, rules, i + 1)

\* one loop that tries the value and the package name of each rule in turn
RECURSIVE ScanBothFields(_, _, _, _)
ScanBothFields(fp, rotation, rules, i) ==
    IF i > Len(rules) THEN [raised |-> FALSE, rotation |-> rotation, log |-> <<>>]
    ELSE LET m == re_search(rules[i].regex, fp.value)
             n == re_search(rules[i].regex, fp.pkg)
         IN  IF m.raised THEN Raised
             ELSE IF m.found \/ n.found
                  THEN Returned(rotate(fp, rotation, rules[i].correction))
                  ELSE ScanBothFields(fp, rotation, rules, i + 1)

\* the first loop of fix_rotation, from rule i on: the value
RECURSIVE ScanValue(_, _, _, _)
ScanValue(fp, rotation, rules, i) ==
    IF i > Len(rules) THEN ScanPackage(fp, rotation, rules, 1)
    ELSE LET m == re_search(rules[i].regex, fp.value)
         IN  IF m.raised THEN Raised
             ELSE IF m.found
                  THEN Returned(rotate(fp, rotation, rules[i].correction))
                  ELSE ScanValue(fp, rotation, rules, i + 1)

\* the rotation fix_rotation scans the rules with: mirrored on the bottom side
MirroredRotation(fp) ==
    IF GetLayer(fp) # 0
    THEN PyMod(180 - OrientationDegrees(fp), 360)
    ELSE OrientationDegrees(fp)

\* Fabrication.fix_rotation with self.corrections = rules
fix_rotation(fp, rules) == ScanValue(fp, MirroredRotation(fp), rules, 1)

(***************************************************************************)
(* Inputs of the rotation functions.                                       *)
(***************************************************************************)
Values == {<<"R", "4">>, <<"C", "0">>}
Packages == {<<"0", "4">>, <<"0", "R">>}
Patterns == {<<"R">>, <<"4", "$">>, <<"^", "0">>, <<"^", "C", ".">>, <<"(">>}
Offsets == {<<"9", "0">>, <<"3", "6", "0">>, <<"-", "3", "5", "9">>}
RawRotations == {0 - 90, 0, 45, 359, 450}
Layers == {F_Cu, B_Cu}

Rules == [regex : Patterns, correction : Offsets]
TablesUpTo(n) == UNION {[1..k -> Rules] : k \in 0..n}

\* the raw rotations an engine without AsDegrees() gives, in tenths of a degree
TenthsRotations == {0 - 900, 450}

Orientations == [api : {"deg"}, v : RawRotations]
                    \cup [api : {"tenths"}, v : TenthsRotations]

Fp(ref, value, pkg, layer, orient, smd, pos, center, excluded) ==
    [ref |-> ref, value |-> value, pkg |-> pkg, layer |-> layer,
     orient |-> orient, smd |-> smd, pos |-> pos, center |-> center,
     excluded |-> excluded]

Origin == [x |-> 0, y |-> 0]

RotFootprints ==
    {Fp("R1", v, p, l, o, TRUE, Origin, Origin, FALSE) :
        v \in Values, p \in Packages, l \in Layers, o \in Orientations}

NoFootprint ==
    Fp("", <<>>, <<>>, F_Cu, [api |-> "deg", v |-> 0], TRUE, Origin, Origin, FALSE)

NoCall == [called |-> FALSE, raised |-> FALSE, rotation |-> 0, log |-> <<>>]

RotIdle ==
    /\ rotFp = NoFootprint
    /\ rotRes = NoCall
    /\ rotStart = 0
    /\ rotDeg = <<"0">>
    /\ rotSides = <<>>
    /\ rotCur = 0

(***************************************************************************)
(* generate_geber and generate_excellon.  A plot plan entry is             *)
(* [name, id, label]; a name or label is [s, n], n the inner layer's       *)
(* number in f"CuIn{layer}" (0 where the text has none).  A file of        *)
(* gerberdir is [name, ext].                                               *)
(***************************************************************************)
Entry(name, id, label) ==
    [name |-> [s |-> name, n |-> 0], id |-> id, label |-> [s |-> label, n |-> 0]]

plot_plan_top ==
    << Entry("CuTop", F_Cu, "Top layer"),
       Entry("SilkTop", F_SilkS, "Silk top"),
       Entry("MaskTop", F_Mask, "Mask top"),
       Entry("PasteTop", F_Paste, "Paste top") >>

plot_plan_bottom ==
    << Entry("CuBottom", B_Cu, "Bottom layer"),
       Entry("SilkBottom", B_SilkS, "Silk top"),
       Entry("MaskBottom", B_Mask, "Mask bottom"),
       Entry("PasteBottom", B_Paste, "Paste bottom"),
       Entry("EdgeCuts", Edge_Cuts, "Edges"),
       Entry("VScore", Cmts_User, "V score cut") >>

InnerEntry(layer) ==
    [name |-> [s |-> "CuIn", n |-> layer], id |-> layer,
     label |-> [s |-> "Inner layer", n |-> layer]]

PlotPlanInnerToCount(count) ==
    IF count = 1 THEN plot_plan_top \o SubSeq(plot_plan_bottom, 5, 6)
    ELSE IF count = 2 THEN plot_plan_top \o plot_plan_bottom
    ELSE plot_plan_top
            \o [layer \in 1..(count - 1) |-> InnerEntry(layer)]
            \o plot_plan_bottom

\* the plot plan of a board with count copper layers
PlotPlan(count) ==
    IF count = 1 THEN plot_plan_top \o SubSeq(plot_plan_bottom, 5, 6)
    ELSE IF count = 2 THEN plot_plan_top \o plot_plan_bottom
    ELSE plot_plan_top
            \o [layer \in 1..(count - 2) |-> InnerEntry(layer)]
            \o plot_plan_bottom

SkipNPTHBelowBottom(layer_info) == layer_info.id < B_Cu

\* the argument of popt.SetSkipPlotNPTH_Pads before the entry is plotted
SkipNPTH(layer_info) == layer_info.id <= B_Cu

ClearGerbersOnly(dir) == {f \in dir : f.ext # "gbr"}

\* os.remove of every file os.listdir names
ClearDirectory(dir) == dir \ {f \in dir : TRUE}

\* pctl.OpenPlotfile of every entry of the plan, in the plan's order
PlotFiles(dir, plan) ==
    dir \cup {[name |-> plan[i].name, ext |-> "gbr"] : i \in 1..Len(plan)}

\* what CreateDrillandMapFilesSet writes with mergeNPTH = False
DrillFiles ==
    {[name |-> [s |-> "PTH", n |-> 0], ext |-> "drl"],
     [name |-> [s |-> "NPTH", n |-> 0], ext |-> "drl"],
     [name |-> [s |-> "PTH-drl_map", n |-> 0], ext |-> "pdf"],
     [name |-> [s |-> "NPTH-drl_map", n |-> 0], ext |-> "pdf"]}

NoRun == [ran |-> FALSE, count |-> 0, files |-> {}]

\* Fabrication.generate_geber(layer_count = given); 0 stands for None
generate_geber(given) ==
    LET count == IF given = 0 THEN boardLayers ELSE given
        plan == PlotPlan(count)
        cleared == ClearDirectory(gerberdir)
    IN  /\ dirAtOpen' = cleared
        /\ gerberdir' = PlotFiles(cleared, plan)
        /\ plot_plan' = plan
        /\ npthLog' = [i \in 1..Len(plan) |-> SkipNPTH(plan[i])]
        /\ layer_count' = count
        /\ lastOp' = "gerber"
        /\ prevRun' = IF layer_count = 0 THEN NoRun
                      ELSE [ran |-> TRUE, count |-> layer_count,
                            files |-> {f \in gerberdir : f.ext = "gbr"}]
        /\ UNCHANGED boardLayers

\* Fabrication.generate_excellon
generate_excellon ==
    /\ gerberdir' = gerberdir \cup DrillFiles
    /\ lastOp' = "excellon"
    /\ UNCHANGED <<boardLayers, plot_plan, npthLog, dirAtOpen, layer_count,
                   prevRun>>

GerberIdle ==
    /\ boardLayers = 2
    /\ gerberdir = {}
    /\ plot_plan = <<>>
    /\ npthLog = <<>>
    /\ dirAtOpen = {}
    /\ layer_count = 0
    /\ lastOp = "none"
    /\ prevRun = NoRun

(***************************************************************************)
(* generate_cpl.  A part is [ref, value, footprint, lcsc]: part[0],        *)
(* part[1], part[2] and part[4] of a read_pos_parts row.  A millimetre     *)
(* value is a fraction [num, den] in lowest terms.                         *)
(***************************************************************************)
Abs(n) == IF n < 0 THEN 0 - n ELSE n

RECURSIVE GCD(_, _)
GCD(a, b) == IF b = 0 THEN a ELSE GCD(b, a % b)

Frac(n, d) ==
    LET g == GCD(Abs(n), d) IN [num |-> n \div g, den |-> d \div g]

\* pcbnew.ToMM: internal units to millimetres
ToMM(iu) == Frac(iu, IU_PER_MM)

\* a millimetre value times an integer
FracTimes(f, k) == Frac(f.num * k, f.den)

\* VECTOR2I.__sub__
VecSub(a, b) == [x |-> a.x - b.x, y |-> a.y - b.y]

\* helpers.get_smd, helpers.get_exclude_from_pos
get_smd(fp) == fp.smd
get_exclude_from_pos(fp) == fp.excluded

\* helpers.get_footprint_by_ref: the footprints with that reference
get_footprint_by_ref(board, ref) ==
    LET Test(fp) == fp.ref = ref IN SelectSeq(board, Test)

\* Fabrication.get_position
get_position(fp) == IF get_smd(fp) THEN fp.pos ELSE fp.center

\* dict.get(key, default)
DictGet(d, key, default) == IF key \in DOMAIN d THEN d[key] ELSE default

CplRowNoFlip(part, fp, rotation, origin) ==
    LET position == VecSub(get_position(fp), origin)
    IN  [designator |-> part.ref, val |-> part.value,
         package |-> part.footprint,
         x |-> ToMM(position.x), y |-> ToMM(position.y),
         rotation |-> rotation,
         layer |-> IF GetLayer(fp) = 0 THEN "top" ELSE "bottom"]

\* the row generate_cpl writes for a footprint of a part
CplRow(part, fp, rotation, origin) ==
    LET position == VecSub(get_position(fp), origin)
    IN  [designator |-> part.ref, val |-> part.value,
         package |-> part.footprint,
         x |-> ToMM(position.x), y |-> FracTimes(ToMM(position.y), 0 - 1),
         rotation |-> rotation,
         layer |-> IF GetLayer(fp) = 0 THEN "top" ELSE "bottom"]

SkipWithoutLcscAlways(add_without_lcsc, part) == part.lcsc = ""

\* the second continue of the loop: not add_without_lcsc and not part[4]
SkipWithoutLcsc(add_without_lcsc, part) ==
    ~add_without_lcsc /\ part.lcsc = ""

\* the inner loop of generate_cpl over the footprints fps of a part, from
\* footprint j on; acc is [rows, raised]
RECURSIVE FootprintLoop(_, _, _, _, _, _, _)
FootprintLoop(part, fps, j, acc, rules, add_without_lcsc, origin) ==
    IF j > Len(fps) THEN acc
    ELSE IF get_exclude_from_pos(fps[j])
         THEN FootprintLoop(part, fps, j + 1, acc, rules, add_without_lcsc, origin)
    ELSE IF SkipWithoutLcsc(add_without_lcsc, part)
         THEN FootprintLoop(part, fps, j + 1, acc, rules, add_without_lcsc, origin)
    ELSE LET r == fix_rotation(fps[j], rules)
         IN  IF r.raised THEN [rows |-> acc.rows, raised |-> TRUE]
             ELSE FootprintLoop(part, fps, j + 1,
                      [rows |-> Append(acc.rows,
                                       CplRow(part, fps[j], r.rotation, origin)),
                       raised |-> FALSE],
                      rules, add_without_lcsc, origin)

\* the outer loop of generate_cpl over the parts, from part i on
RECURSIVE PartLoop(_, _, _, _, _, _, _)
PartLoop(ps, board, i, acc, rules, add_without_lcsc, origin) ==
    IF i > Len(ps) \/ acc.raised THEN acc
    ELSE PartLoop(ps, board, i + 1,
             FootprintLoop(ps[i], get_footprint_by_ref(board, ps[i].ref), 1,
                           acc, rules, add_without_lcsc, origin),
             rules, add_without_lcsc, origin)

CplHeader ==
    <<"Designator", "Val", "Package", "Mid X", "Mid Y", "Rotation", "Layer">>

NoFile == [exists |-> FALSE, header |-> <<>>, rows |-> <<>>]

\* Fabrication.generate_cpl: the file is opened and the header written
\* before the loops run; an exception of fix_rotation leaves the loops
\* and closes the file with what was written
generate_cpl ==
    LET add_without_lcsc == DictGet(settings, "lcsc_bom_pos", TRUE)
        out == PartLoop(parts, footprints, 1, [rows |-> <<>>, raised |-> FALSE],
                        library, add_without_lcsc, aux_orgin)
    IN  /\ corrections' = library
        /\ cplFile' = [exists |-> TRUE, header |-> CplHeader, rows |-> out.rows]
        /\ cplStatus' = IF out.raised THEN "re.error" ELSE "done"
        /\ UNCHANGED <<library, parts, footprints, aux_orgin, settings>>

(***************************************************************************)
(* Inputs of generate_cpl.                                                 *)
(***************************************************************************)
Deg(v) == [api |-> "deg", v |-> v]
Pt(x, y) == [x |-> x, y |-> y]

PartPool ==
    {[ref |-> "R1", value |-> "10k", footprint |-> "0402", lcsc |-> "C25744"],
     [ref |-> "U1", value |-> "MCU", footprint |-> "QFN-32", lcsc |-> ""],
     [ref |-> "J1", value |-> "HDR", footprint |-> "PinHeader", lcsc |-> ""]}

FootprintPool ==
    {Fp("R1", <<"R", "4">>, <<"0", "4">>, F_Cu, Deg(90), TRUE,
        Pt(15000000, 20000000), Pt(16000000, 21500000), FALSE),
     Fp("R1", <<"C", "0">>, <<"0", "R">>, B_Cu, Deg(45), FALSE,
        Pt(30000000, 5000000), Pt(32500000, 7250000), FALSE),
     Fp("U1", <<"C", "0">>, <<"0", "4">>, F_Cu,
        [api |-> "tenths", v |-> 1800], TRUE,
        Pt(40000000, 40000000), Pt(40000000, 40000000), TRUE),
     Fp("U1", <<"C", "0">>, <<"0", "4">>, B_Cu, Deg(0 - 90), TRUE,
        Pt(100000000, 50000000), Pt(101000000, 50500000), FALSE),
     Fp("U1", <<"R", "4">>, <<"0", "R">>, F_Cu, Deg(0), FALSE,
        Pt(14000000, 19000000), Pt(15000000, 20000000), FALSE)}

SeqsUpTo(S, n) == UNION {[1..k -> S] : k \in 0..n}

Rule(p, c) == [regex |-> p, correction |-> c]

LibraryTables ==
    {<<>>,
     <<Rule(<<"R">>, <<"9", "0">>)>>,
     <<Rule(<<"(">>, <<"9", "0">>)>>,
     <<Rule(<<"R">>, <<"9", "0">>), Rule(<<"(">>, <<"3", "6", "0">>)>>}

AuxOrigins == {Pt(0, 0), Pt(10000000, 10000000)}

GerberSettings ==
    {[k \in {} |-> TRUE]} \cup [{"lcsc_bom_pos"} -> BOOLEAN]

CplIdle ==
    /\ library = <<>>
    /\ parts = <<>>
    /\ footprints = <<>>
    /\ aux_orgin = Pt(0, 0)
    /\ settings = [k \in {} |-> TRUE]
    /\ cplFile = NoFile
    /\ cplStatus = "idle"

(***************************************************************************)
(* The rotation functions on their own: corrections is a table a           *)
(* placement export loaded, rotFp a footprint of the board, and            *)
(* fix_rotation is applied to it.                                          *)
(***************************************************************************)
InitRot ==
    /\ corrections \in TablesUpTo(MaxRules)
    /\ rotFp \in RotFootprints
    /\ rotRes = NoCall
    /\ rotStart = 0
    /\ rotDeg = <<"0">>
    /\ rotSides = <<>>
    /\ rotCur = 0
    /\ GerberIdle
    /\ CplIdle

CallFixRotation ==
    /\ rotRes' = LET r == fix_rotation(rotFp, corrections)
                 IN  [called |-> TRUE, raised |-> r.raised,
                      rotation |-> r.rotation, log |-> r.log]
    /\ UNCHANGED <<corrections, rotFp, rotStart, rotDeg, rotSides, rotCur>>
    /\ UNCHANGED gerberVars
    /\ UNCHANGED cplVars

NextRot == CallFixRotation

SpecRot == InitRot /\ [][NextRot]_vars

(***************************************************************************)
(* rotate on its own: a rotation is corrected, and the result corrected    *)
(* again, for footprints on either side.                                   *)
(***************************************************************************)
RotateStarts == RawRotations \cup {90, 180, 270}
RotateOffsets == Offsets \cup {<<"-", "9", "0">>, <<"1", "8", "0">>}

OnLayer(layer) ==
    Fp("R1", <<"R", "4">>, <<"0", "4">>, layer, Deg(0), TRUE, Origin, Origin, FALSE)

InitRotate ==
    /\ corrections = <<>>
    /\ RotIdle
    /\ GerberIdle
    /\ CplIdle

CallRotate ==
    /\ \E layer \in Layers, r \in RotateStarts, d \in RotateOffsets :
          /\ rotStart' = r
          /\ rotDeg' = d
          /\ rotSides' = <<layer>>
          /\ rotCur' = rotate(OnLayer(layer), r, d).rotation
    /\ UNCHANGED <<corrections, rotFp, rotRes>>
    /\ UNCHANGED gerberVars
    /\ UNCHANGED cplVars

RotateAgain ==
    /\ Len(rotSides) >= 1
    /\ Len(rotSides) < MaxChain
    /\ \E layer \in Layers :
          /\ rotSides' = Append(rotSides, layer)
          /\ rotCur' = rotate(OnLayer(layer), rotCur, rotDeg).rotation
    /\ UNCHANGED <<corrections, rotFp, rotRes, rotStart, rotDeg>>
    /\ UNCHANGED gerberVars
    /\ UNCHANGED cplVars

NextRotate == CallRotate \/ RotateAgain

SpecRotate == InitRotate /\ [][NextRotate]_vars

(***************************************************************************)
(* The Gerber pipeline: Gerber runs with any layer count and drill runs,   *)
(* in any order, on a board with 1 .. MaxLayers copper layers.             *)
(***************************************************************************)
InitGerber ==
    /\ corrections = <<>>
    /\ RotIdle
    /\ CplIdle
    /\ boardLayers \in 1..MaxLayers
    /\ gerberdir = {}
    /\ plot_plan = <<>>
    /\ npthLog = <<>>
    /\ dirAtOpen = {}
    /\ layer_count = 0
    /\ lastOp = "none"
    /\ prevRun = NoRun

GerberRun ==
    /\ \E given \in 0..MaxLayers : generate_geber(given)
    /\ UNCHANGED corrections
    /\ UNCHANGED rotVars
    /\ UNCHANGED cplVars

ExcellonRun ==
    /\ generate_excellon
    /\ UNCHANGED corrections
    /\ UNCHANGED rotVars
    /\ UNCHANGED cplVars

NextGerber == GerberRun \/ ExcellonRun

SpecGerber == InitGerber /\ [][NextGerber]_vars

(***************************************************************************)
(* The placement export: a board, a part list, a correction library, an    *)
(* auxiliary origin and the settings, and generate_cpl run on them.        *)
(***************************************************************************)
InitCpl ==
    /\ corrections = <<>>
    /\ RotIdle
    /\ GerberIdle
    /\ library \in LibraryTables
    /\ parts \in SeqsUpTo(PartPool, MaxParts)
    /\ footprints \in SeqsUpTo(FootprintPool, MaxFootprints)
    /\ aux_orgin \in AuxOrigins
    /\ settings \in GerberSettings
    /\ cplFile = NoFile
    /\ cplStatus = "idle"

CplRun ==
    /\ generate_cpl
    /\ UNCHANGED rotVars
    /\ UNCHANGED gerberVars

NextCpl == CplRun

SpecCpl == InitCpl /\ [][NextCpl]_vars

(***************************************************************************)
(* Definitions the properties are stated with.                             *)
(***************************************************************************)

\* the representative of x modulo 360 in 0 .. 359
Mod360(x) == CHOOSE m \in 0..359 : \E k \in (0 - 4)..4 : x = 360 * k + m

Matches(p, s) == re_valid(p) /\ \E j \in 1..(Len(s) + 1) : MatchHere(p, 1, s, j)

AllValid(rules) == \A i \in 1..Len(rules) : re_valid(rules[i].regex)

ValueHits(fp, rules) ==
    {i \in 1..Len(rules) : Matches(rules[i].regex, fp.value)}

PackageHits(fp, rules) ==
    {i \in 1..Len(rules) : Matches(rules[i].regex, fp.pkg)}

Least(S) == CHOOSE i \in S : \A j \in S : i <= j

\* the rule the specification selects for a footprint (0: none)
SelectedRule(fp, rules) ==
    IF ValueHits(fp, rules) # {} THEN Least(ValueHits(fp, rules))
    ELSE IF PackageHits(fp, rules) # {} THEN Least(PackageHits(fp, rules))
    ELSE 0

\* C1: for a raw rotation in [0, 360), either side, any value, package name
\* and correction table with offsets in (-360, 360], fix_rotation returns a
\* rotation in [0, 360), whether or not a rule matches: it returns whenever
\* every pattern of the table is a regular expression, and no value it
\* returns is outside [0, 360).
C1_RotationInRange ==
    (rotRes.called /\ OrientationDegrees(rotFp) \in 0..359) =>
        /\ AllValid(corrections) => ~rotRes.raised
        /\ ~rotRes.raised => rotRes.rotation \in 0..359

\* C1: a bottom-side footprint at 359 degrees whose value matched the rule
\* with the offset -359
C1_Witness ==
    /\ rotRes.called
    /\ ~rotRes.raised
    /\ GetLayer(rotFp) = B_Cu
    /\ OrientationDegrees(rotFp) = 359
    /\ rotRes.log = <<[side |-> "Bottom", degrees |-> <<"-", "3", "5", "9">>]>>
    /\ rotRes.rotation = 180

\* C2: fix_rotation applies exactly one correction, that of the first rule
\* in declaration order whose pattern matches the value, and only if no rule
\* matches the value that of the first rule whose pattern matches the
\* package name: the correction it logs and the rotation it returns are
\* those of that rule, and with no matching rule it logs nothing and
\* returns the (mirrored) rotation unchanged.
C2_FirstValueThenPackage ==
    (rotRes.called /\ ~rotRes.raised) =>
        LET k == SelectedRule(rotFp, corrections)
            base == MirroredRotation(rotFp)
        IN  IF k = 0
            THEN rotRes.log = <<>> /\ rotRes.rotation = base
            ELSE LET d == int(corrections[k].correction)
                 IN  /\ Len(rotRes.log) = 1
                     /\ rotRes.log[1].degrees = corrections[k].correction
                     /\ rotRes.rotation =
                           IF GetLayer(rotFp) = F_Cu THEN Mod360(base + d)
                           ELSE Mod360(base - d)

\* C2: the first rule matches only the package name, the second matches the
\* value and has another offset, and the second one's offset was applied
C2_Witness ==
    /\ rotRes.called
    /\ ~rotRes.raised
    /\ Len(corrections) = 2
    /\ Matches(corrections[1].regex, rotFp.pkg)
    /\ ~Matches(corrections[1].regex, rotFp.value)
    /\ Matches(corrections[2].regex, rotFp.value)
    /\ corrections[1].correction # corrections[2].correction
    /\ Len(rotRes.log) = 1
    /\ rotRes.log[1].degrees = corrections[2].correction

\* C3: rotate gives (rotation + d) mod 360 for a top-side footprint and
\* (rotation - d) mod 360 for a bottom-side one; from 0 with d = 90 that is
\* 90 on top and 270 on the bottom; rotate on top and then on the bottom
\* with the same d gives the starting rotation modulo 360.
C3_SideDependentSign ==
    LET d == int(rotDeg)
    IN  /\ Len(rotSides) = 1 =>
               rotCur = IF rotSides[1] = F_Cu THEN Mod360(rotStart + d)
                        ELSE Mod360(rotStart - d)
        /\ (Len(rotSides) = 1 /\ rotStart = 0 /\ rotDeg = <<"9", "0">>) =>
               rotCur = IF rotSides[1] = F_Cu THEN 90 ELSE 270
        /\ rotSides = <<F_Cu, B_Cu>> => rotCur = Mod360(rotStart)

\* C3: 45 degrees corrected by 90 on top and then by 90 on the bottom
C3_Witness ==
    /\ rotSides = <<F_Cu, B_Cu>>
    /\ rotStart = 45
    /\ rotDeg = <<"9", "0">>
    /\ rotCur = 45

\* C10: fix_rotation normalizes the raw rotation first, so for any raw
\* rotation its result is in [0, 360); with no matching rule a top-side
\* footprint gets raw mod 360 and a bottom-side one (180 - raw) mod 360.
C10_NormalizedFirst ==
    (rotRes.called /\ ~rotRes.raised) =>
        /\ rotRes.rotation \in 0..359
        /\ rotRes.log = <<>> =>
               rotRes.rotation =
                   IF GetLayer(rotFp) = F_Cu
                   THEN Mod360(OrientationDegrees(rotFp))
                   ELSE Mod360(180 - OrientationDegrees(rotFp))

TopNames == <<"CuTop", "SilkTop", "MaskTop", "PasteTop">>
BottomNames ==
    <<"CuBottom", "SilkBottom", "MaskBottom", "PasteBottom", "EdgeCuts", "VScore">>

Name(s) == [s |-> s, n |-> 0]

\* C4: the plot plan depends only on the layer count N: 6 entries for
\* N = 1 (the four top entries, then EdgeCuts and VScore), 10 for N = 2 (the
\* four top entries, then the six bottom entries), N + 8 for N > 2: the four
\* top entries, the inner entries CuIn1 .. CuIn(N-2) in ascending order
\* with layer id equal to the index, then the six bottom entries.
C4_PlotPlanByCount ==
    layer_count # 0 =>
        LET N == layer_count
            P == plot_plan
        IN  /\ Len(P) = (IF N = 1 THEN 6 ELSE IF N = 2 THEN 10 ELSE N + 8)
            /\ \A i \in 1..4 : P[i].name = Name(TopNames[i])
            /\ N = 1 => /\ P[5].name = Name("EdgeCuts")
                        /\ P[6].name = Name("VScore")
            /\ N >= 2 => \A i \in 1..6 :
                             P[Len(P) - 6 + i].name = Name(BottomNames[i])
            /\ N > 2 => \A k \in 1..(N - 2) :
                            /\ P[4 + k].name = [s |-> "CuIn", n |-> k]
                            /\ P[4 + k].id = k

\* C4: a four-layer run, with its 12 entries
C4_Witness ==
    /\ layer_count = 4
    /\ Len(plot_plan) = 12
    /\ plot_plan[6].name = [s |-> "CuIn", n |-> 2]

\* the position of CuBottom in the plan
BottomCopperAt(P) == CHOOSE i \in 1..Len(P) : P[i].name = Name("CuBottom")

\* C5 as claimed: for a layer count >= 2 the skip-non-plated-holes option
\* is true for every entry at or before CuBottom in the plot plan and false
\* for every entry after it.
C5_SkipFollowsPlanOrder ==
    layer_count >= 2 =>
        \A i \in 1..Len(plot_plan) :
            npthLog[i] = (i <= BottomCopperAt(plot_plan))

\* C5 as amended: for a layer count >= 2 the option is true exactly for the
\* copper entries (CuTop, the inner layers, CuBottom), whose layer ids are
\* at most that of CuBottom, and false for every other entry: SilkTop,
\* MaskTop and PasteTop, and every entry after CuBottom.
C5_SkipOnCopperOnly ==
    layer_count >= 2 =>
        /\ Len(npthLog) = Len(plot_plan)
        /\ \A i \in 1..Len(plot_plan) :
               npthLog[i] = (plot_plan[i].name.s \in {"CuTop", "CuIn", "CuBottom"})

\* C5: a four-layer run: true for CuTop, CuIn1, CuIn2 and CuBottom, false
\* for SilkTop before them and SilkBottom after them
C5_Witness ==
    /\ layer_count = 4
    /\ npthLog[1] /\ npthLog[5] /\ npthLog[6] /\ npthLog[7]
    /\ ~npthLog[2] /\ ~npthLog[8]

\* the files of a Gerber run with N copper layers
ExpectedFiles(N) ==
    {[name |-> Name(TopNames[i]), ext |-> "gbr"] : i \in 1..4}
        \cup {[name |-> Name(BottomNames[i]), ext |-> "gbr"] :
                  i \in (IF N = 1 THEN 5..6 ELSE 1..6)}
        \cup {[name |-> [s |-> "CuIn", n |-> k], ext |-> "gbr"] : k \in 1..(N - 2)}

\* C7: in every Gerber run the directory is empty when the first plot file
\* is opened, so after a Gerber run it holds exactly the files of that
\* run's plot plan, whatever runs came before (no inner-layer file of a run
\* with more layers, no drill file), and a run with the layer count of the
\* run before it leaves the file set that run left.
C7_OnlyLastRunsFiles ==
    lastOp = "gerber" =>
        /\ dirAtOpen = {}
        /\ gerberdir = ExpectedFiles(layer_count)
        /\ (prevRun.ran /\ prevRun.count = layer_count) =>
               gerberdir = prevRun.files

\* C7: a two-layer run after a four-layer run: the inner-layer files of
\* the four-layer run are gone
C7_Witness ==
    /\ lastOp = "gerber"
    /\ layer_count = 2
    /\ prevRun.ran
    /\ prevRun.count = 4
    /\ [name |-> [s |-> "CuIn", n |-> 1], ext |-> "gbr"] \in prevRun.files
    /\ [name |-> [s |-> "CuIn", n |-> 1], ext |-> "gbr"] \notin gerberdir

\* the sum and the negation of two millimetre values
FracSub(a, b) == Frac(a.num * b.den - b.num * a.den, a.den * b.den)
FracNeg(a) == [num |-> 0 - a.num, den |-> a.den]

\* lcsc_bom_pos, true unless the settings say otherwise
LcscBomPos ==
    IF "lcsc_bom_pos" \in DOMAIN settings THEN settings["lcsc_bom_pos"] ELSE TRUE

\* the (part, footprint) pairs with the footprint's reference equal to the
\* part's designator, in part order then footprint order, from part i on
RECURSIVE PairsFrom(_)
PairsFrom(i) ==
    IF i > Len(parts) THEN <<>>
    ELSE LET idx == {j \in 1..Len(footprints) : footprints[j].ref = parts[i].ref}
             SameRef(fp) == fp.ref = parts[i].ref
             fps == SelectSeq(footprints, SameRef)
         IN  [k \in 1..Cardinality(idx) |-> [part |-> parts[i], fp |-> fps[k]]]
                 \o PairsFrom(i + 1)

Survives(pr) ==
    /\ ~pr.fp.excluded
    /\ pr.part.lcsc # "" \/ LcscBomPos

SurvivingPairs == SelectSeq(PairsFrom(1), Survives)

\* the reference point of a footprint: its anchor if it is surface-mount,
\* the center of its bounding box otherwise
ReferencePoint(fp) == IF fp.smd THEN fp.pos ELSE fp.center

C8_AbortBeforeAnyWrite ==
    cplStatus = "re.error" =>
        /\ ~cplFile.exists
        /\ cplFile.header = <<>>
        /\ cplFile.rows = <<>>

\* C9: after the header generate_cpl writes exactly one row for each pair
\* of a part and a footprint with the part's designator that is not
\* excluded from placement, where the part has a supplier part id or
\* lcsc_bom_pos is true (its default), in part order then footprint order,
\* and no other row: the rows written are always the rows of the first
\* such pairs, and those of all of them when the export completes.
C9_OneRowPerSurvivingPair ==
    cplStatus # "idle" =>
        /\ cplFile.header = CplHeader
        /\ Len(cplFile.rows) <= Len(SurvivingPairs)
        /\ cplStatus = "done" => Len(cplFile.rows) = Len(SurvivingPairs)
        /\ \A i \in 1..Len(cplFile.rows) :
               LET pr == SurvivingPairs[i]
               IN  /\ cplFile.rows[i].designator = pr.part.ref
                   /\ cplFile.rows[i].val = pr.part.value
                   /\ cplFile.rows[i].package = pr.part.footprint
                   /\ cplFile.rows[i].layer =
                         (IF pr.fp.layer = F_Cu THEN "top" ELSE "bottom")
                   /\ cplFile.rows[i].x =
                         ToMM(ReferencePoint(pr.fp).x - aux_orgin.x)

\* C9: a part without a supplier part id, lcsc_bom_pos not set, and two
\* footprints with its designator, neither excluded: two rows
C9_Witness ==
    /\ cplStatus = "done"
    /\ settings = [k \in {} |-> TRUE]
    /\ Len(parts) = 1
    /\ parts[1].lcsc = ""
    /\ Len(footprints) = 2
    /\ footprints[1] # footprints[2]
    /\ \A j \in 1..2 : footprints[j].ref = parts[1].ref /\ ~footprints[j].excluded
    /\ Len(cplFile.rows) = 2

====
